---- MODULE Spec2Model ----
(***************************************************************************)
(* A model of the rusterizer crate: the image buffer (src/src/image.rs)    *)
(* and the rasterization pipeline (src/src/lib.rs).                        *)
(*                                                                         *)
(* Numbers.  An f64 is modelled by an exact rational <<n, d>> with d > 0   *)
(* in lowest terms; rounding of f64 arithmetic is not modelled.  The f64   *)
(* values that are no numbers, the two infinities and NaN, are <<1, 0>>,   *)
(* <<-1, 0>> and <<0, 0>>; they occur as arguments of sample_nearest only, *)
(* where comparison, min and max treat them as IEEE 754 does.  A u8, u32   *)
(* or usize is an integer.  A u32 has U32Bits bits and a usize twice as    *)
(* many, as on the 64-bit targets of the source (32 and 64 bits), scaled   *)
(* down so that the products that overflow a usize are within reach.  The  *)
(* size computations of the constructors are done in usize arithmetic;     *)
(* every other integer computation of the model stays below 2^U32Bits.     *)
(* A vector is a record with the fields x, y, z, w it has in nalgebra.     *)
(***************************************************************************)
EXTENDS Integers, Sequences, FiniteSets, TLC

(***************************************************************************)
(* Bounds of the model.                                                    *)
(***************************************************************************)
\* Largest image width and height explored.
MaxDim == 2
\* Largest number of elements a from_raw buffer holds beyond width*height*channels.
MaxExtra == 1
\* Largest number of image operations in one behaviour of SpecImage.
MaxOps == 2
\* Largest number of triangles in the attribute buffer of a draw call.
MaxTris == 2
\* Largest length of the buffer handed to Image::from_raw in SpecCtor.
MaxRaw == 8
\* Largest width and height of the images of SpecScenario, besides 100.
MaxScreen == 4
\* The number of bits of a u32 in the model.
U32Bits == 8

RECURSIVE Pow2(_)
Pow2(n) == IF n = 0 THEN 1 ELSE 2 * Pow2(n - 1)

\* u32::MAX, and the number of values of a usize.
U32Max == Pow2(U32Bits) - 1
UsizeMod == Pow2(2 * U32Bits)

(***************************************************************************)
(* f64 arithmetic on exact rationals.                                      *)
(***************************************************************************)
RECURSIVE GCD(_, _)
GCD(a, b) == IF b = 0 THEN a ELSE GCD(b, a % b)

Abs(n) == IF n < 0 THEN -n ELSE n

\* The largest finite f64 (f64::MAX), scaled.
F64Max == 100000000

\* The f64 of n/d: the rational in lowest terms with a positive denominator;
\* a magnitude beyond F64Max overflows to an infinity, and a zero denominator
\* gives the infinity of n's sign, or NaN for 0/0.
Rat(n, d) ==
    IF d = 0 THEN <<IF n > 0 THEN 1 ELSE IF n < 0 THEN -1 ELSE 0, 0>>
    ELSE LET s == IF d < 0 THEN -1 ELSE 1
             g == GCD(Abs(n), Abs(d))
         IN  IF Abs(n) \div Abs(d) > F64Max
             THEN <<IF s * n > 0 THEN 1 ELSE -1, 0>>
             ELSE <<(s * n) \div g, (s * d) \div g>>

\* f64::from(i) of an integer i.
F(i) == <<i, 1>>

\* IEEE 754 sums and differences: inf + inf = inf, inf - inf = NaN.
RAdd(p, q) ==
    IF p[2] = 0 /\ q[2] = 0 THEN (IF p = q THEN p ELSE <<0, 0>>)
    ELSE Rat(p[1] * q[2] + q[1] * p[2], p[2] * q[2])
RSub(p, q) ==
    IF p[2] = 0 /\ q[2] = 0
    THEN (IF p[1] = 0 \/ q[1] = 0 \/ p = q THEN <<0, 0>> ELSE p)
    ELSE Rat(p[1] * q[2] - q[1] * p[2], p[2] * q[2])
RMul(p, q) == Rat(p[1] * q[1], p[2] * q[2])
\* p / q: x / 0 is an infinity, 0 / 0 and inf / inf are NaN.
RDiv(p, q) ==
    IF q[1] < 0 THEN Rat(-(p[1] * q[2]), p[2] * (-q[1]))
    ELSE Rat(p[1] * q[2], p[2] * q[1])
\* f64::INFINITY, f64::NEG_INFINITY and f64::NAN
PosInf == <<1, 0>>
NegInf == <<-1, 0>>
NaN == <<0, 0>>

\* p < q and p <= q on f64: false when p or q is NaN.
RLt(p, q) ==
    IF p[2] = 0 /\ q[2] = 0 THEN p # NaN /\ q # NaN /\ p[1] < q[1]
    ELSE p[1] * q[2] < q[1] * p[2]
RLe(p, q) ==
    /\ p # NaN /\ q # NaN
    /\ IF p[2] = 0 /\ q[2] = 0 THEN p[1] <= q[1]
       ELSE p[1] * q[2] <= q[1] * p[2]
\* f64::abs
RAbs(p) == <<Abs(p[1]), p[2]>>
\* f64::min and f64::max: when one argument is NaN, the other is returned.
RMin(p, q) ==
    IF p = NaN THEN q ELSE IF q = NaN THEN p ELSE IF RLt(q, p) THEN q ELSE p
RMax(p, q) ==
    IF p = NaN THEN q ELSE IF q = NaN THEN p ELSE IF RLt(p, q) THEN q ELSE p

\* `v as u32` and `v as u8` of an f64 v: truncation toward zero that
\* saturates at the ends of the integer type (a negative v and NaN give 0).
FloatToInt(v, max) ==
    IF v[1] <= 0 THEN 0
    ELSE IF v[2] = 0 THEN max
    ELSE IF v[1] \div v[2] > max THEN max ELSE v[1] \div v[2]

\* math::clamp
clamp(val, min, max) == RMin(max, RMax(min, val))

(***************************************************************************)
(* image.rs: Image<P>.  An image is a record [width, height, channels,     *)
(* buffer]; channels is P::channel_count() and buffer is the flat Vec of   *)
(* channel values, indexed from 1 here and from 0 in the source.  A pixel  *)
(* is the sequence of its channel values (Rgba: 4 values, Depth: 1).       *)
(***************************************************************************)
\* Rgba<T>::channel_count() and Depth<T>::channel_count()
RgbaChannels == 4
DepthChannels == 1

\* The result of an operation that panicked.
Panic == [panic |-> TRUE]
Ok(v) == [panic |-> FALSE, val |-> v]

\* a * b on usize: a build with overflow checks (debug) panics when the
\* product does not fit, a build without them (release) wraps.
usize_mul(a, b, overflow_checks) ==
    IF a * b < UsizeMod THEN Ok(a * b)
    ELSE IF overflow_checks THEN Panic ELSE Ok((a * b) % UsizeMod)

\* `w * h * c` of Image::new and Image::from_raw.
buffer_size(width, height, c, overflow_checks) ==
    LET wh == usize_mul(width, height, overflow_checks)
    IN  IF wh.panic THEN Panic ELSE usize_mul(wh.val, c, overflow_checks)

\* Image::new: a zero-initialized buffer of w * h * c elements.
Image_new(width, height, c, zero, overflow_checks) ==
    LET n == buffer_size(width, height, c, overflow_checks)
    IN  IF n.panic THEN Panic
        ELSE Ok([width |-> width, height |-> height, channels |-> c,
                 buffer |-> [k \in 1..n.val |-> zero]])

\* Image::pixels_mut followed by `*p = pixel` for every chunk: chunk j holds
\* elements c*j .. c*j + c - 1 of the buffer.
FillPixels(img, pixel) ==
    [img EXCEPT !.buffer =
        [k \in 1..Len(img.buffer) |-> pixel[((k - 1) % img.channels) + 1]]]

\* Image::from_pixel
Image_from_pixel(width, height, c, zero, pixel, overflow_checks) ==
    LET image == Image_new(width, height, c, zero, overflow_checks)
    IN  IF image.panic THEN Panic ELSE Ok(FillPixels(image.val, pixel))

\* Image::from_raw: Some(image) when w * h * c <= buffer.len(), else None.
Image_from_raw(buffer, width, height, c, overflow_checks) ==
    LET n == buffer_size(width, height, c, overflow_checks)
    IN  IF n.panic THEN Panic
        ELSE IF n.val <= Len(buffer)
             THEN Ok([some |-> TRUE,
                      image |-> [width |-> width, height |-> height,
                                 channels |-> c, buffer |-> buffer]])
             ELSE Ok([some |-> FALSE])

\* Image::into_raw
Image_into_raw(img) == img.buffer

\* The index computed by Image::pixel and Image::pixel_mut.
PixelIndex(img, x, y) == img.channels * (y * img.width + x)

\* Whether the slice buffer[index..index + channel_count] exists; indexing
\* panics otherwise.
SliceInRange(img, index) == index + img.channels <= Len(img.buffer)

\* Image::pixel
Image_pixel(img, x, y) ==
    LET index == PixelIndex(img, x, y)
    IN  IF SliceInRange(img, index)
        THEN Ok(SubSeq(img.buffer, index + 1, index + img.channels))
        ELSE Panic

\* Image::set_pixel, through Image::pixel_mut.
Image_set_pixel(img, x, y, pixel) ==
    LET index == PixelIndex(img, x, y)
    IN  IF SliceInRange(img, index)
        THEN Ok([img EXCEPT !.buffer =
                    SubSeq(@, 1, index) \o pixel
                      \o SubSeq(@, index + img.channels + 1, Len(@))])
        ELSE Panic

\* Image::clear(v): overwrite every pixel with v.
Image_clear(img, pixel) ==
    [img EXCEPT !.buffer =
        [k \in 1..Len(img.buffer) |->
            IF k <= img.channels * (Len(img.buffer) \div img.channels)
            THEN pixel[((k - 1) % img.channels) + 1] ELSE img.buffer[k]]]

\* Image::dimensions, Image::width, Image::height
Image_dimensions(img) == <<img.width, img.height>>

(***************************************************************************)
(* nalgebra vectors and shader.rs: Smooth.                                 *)
(***************************************************************************)
Vec2(x, y) == [x |-> x, y |-> y]
Vec3(x, y, z) == [x |-> x, y |-> y, z |-> z]
Vec4(x, y, z, w) == [x |-> x, y |-> y, z |-> z, w |-> w]

\* Vector3::cross
cross(u, v) ==
    Vec3(RSub(RMul(u.y, v.z), RMul(u.z, v.y)),
         RSub(RMul(u.z, v.x), RMul(u.x, v.z)),
         RSub(RMul(u.x, v.y), RMul(u.y, v.x)))

\* <f64 as Smooth>::interpolate
interpolate(a, b, c, bar) ==
    RAdd(RAdd(RMul(a, bar.x), RMul(b, bar.y)), RMul(c, bar.z))

\* <Vector4<f64> as Smooth>::interpolate
interpolate4(a, b, c, bar) ==
    Vec4(interpolate(a.x, b.x, c.x, bar), interpolate(a.y, b.y, c.y, bar),
         interpolate(a.z, b.z, c.z, bar), interpolate(a.w, b.w, c.w, bar))

(***************************************************************************)
(* The shader program of the examples: the attribute carries a clip        *)
(* position and a color, the varying carries the color.                    *)
(***************************************************************************)
\* Varying::default()
VaryingDefault == [clr |-> Vec4(F(0), F(0), F(0), F(0))]

\* Smooth for Varying
interpolateVarying(va, vb, vc, bar) ==
    [clr |-> interpolate4(va.clr, vb.clr, vc.clr, bar)]

\* ShaderProgram::vertex: the clip position returned and the varying written.
vertex(attr, var) == [pos |-> attr.pos, var |-> [var EXCEPT !.clr = attr.clr]]

\* ShaderProgram::fragment
fragment(pos, var) == var.clr

(***************************************************************************)
(* lib.rs: the geometry helpers.                                           *)
(***************************************************************************)
\* fixed_rows::<U3>(0) and fixed_rows::<U2>(0)
xyz(v) == Vec3(v.x, v.y, v.z)
xy(v) == Vec2(v.x, v.y)

\* from_homogenous, for vec.w # 0.
from_homogenous(vec) ==
    Vec4(RDiv(vec.x, vec.w), RDiv(vec.y, vec.w), RDiv(vec.z, vec.w),
         RDiv(F(1), vec.w))

face_normal(a, b, c) ==
    LET ab == Vec3(RSub(b.x, a.x), RSub(b.y, a.y), RSub(b.z, a.z))
        ac == Vec3(RSub(c.x, a.x), RSub(c.y, a.y), RSub(c.z, a.z))
    IN  cross(ab, ac)

\* The match on cull_face with the FrontAndBack arm lost.
do_cull_no_both(cull_face, normal) ==
    CASE cull_face = "Front" /\ RLt(F(0), normal.z) -> TRUE
      [] cull_face = "Back" /\ RLt(normal.z, F(0)) -> TRUE
      [] OTHER -> FALSE

\* The match on cull_face with the Front arm testing the sign of the Back arm.
do_cull_same_sign(cull_face, normal) ==
    CASE cull_face = "FrontAndBack" -> TRUE
      [] cull_face = "Front" /\ RLt(normal.z, F(0)) -> TRUE
      [] cull_face = "Back" /\ RLt(normal.z, F(0)) -> TRUE
      [] OTHER -> FALSE

\* The match on cull_face in Pipeline::triangles; cull_face is "None" for
\* Option::None.
do_cull(cull_face, normal) ==
    CASE cull_face = "FrontAndBack" -> TRUE
      [] cull_face = "Front" /\ RLt(F(0), normal.z) -> TRUE
      [] cull_face = "Back" /\ RLt(normal.z, F(0)) -> TRUE
      [] OTHER -> FALSE

\* The culling normal taken after the homogeneous divide.
cull_normal_ndc(world_a, world_b, world_c) ==
    face_normal(xyz(from_homogenous(world_a)), xyz(from_homogenous(world_b)),
                xyz(from_homogenous(world_c)))

\* The normal the culling test of Pipeline::triangles looks at: the face
\* normal of the first three rows of the clip positions.
cull_normal(world_a, world_b, world_c) ==
    face_normal(xyz(world_a), xyz(world_b), xyz(world_c))

\* u32::saturating_sub(1)
saturating_sub1(n) == IF n = 0 THEN 0 ELSE n - 1

\* `v as u32`
as_u32(v) == FloatToInt(v, U32Max)

IMin(m, n) == IF n < m THEN n ELSE m

\* bounding_box clamping to the width and the height instead of the largest
\* coordinates, and bounding_box without clamping.
bounding_box_inclusive(a, b, c, width, height) ==
    LET xmin == RMin(RMin(a.x, b.x), c.x)
        xmax == RMax(RMax(a.x, b.x), c.x)
        ymin == RMin(RMin(a.y, b.y), c.y)
        ymax == RMax(RMax(a.y, b.y), c.y)
    IN  [topleft |-> Vec2(as_u32(xmin), as_u32(ymin)),
         bottomright |-> Vec2(IMin(as_u32(xmax), width),
                              IMin(as_u32(ymax), height))]

bounding_box(a, b, c, width, height) ==
    LET xmin == RMin(RMin(a.x, b.x), c.x)
        xmax == RMax(RMax(a.x, b.x), c.x)
        ymin == RMin(RMin(a.y, b.y), c.y)
        ymax == RMax(RMax(a.y, b.y), c.y)
    IN  [topleft |-> Vec2(as_u32(xmin), as_u32(ymin)),
         bottomright |-> Vec2(IMin(as_u32(xmax), saturating_sub1(width)),
                              IMin(as_u32(ymax), saturating_sub1(height)))]

\* barycentric rejecting only below an eighth of a sample.
barycentric_eighth(a, b, c, p) ==
    LET ab == Vec2(RSub(b.x, a.x), RSub(b.y, a.y))
        ac == Vec2(RSub(c.x, a.x), RSub(c.y, a.y))
        pa == Vec2(RSub(a.x, p.x), RSub(a.y, p.y))
        xs == Vec3(ac.x, ab.x, pa.x)
        ys == Vec3(ac.y, ab.y, pa.y)
        ortho == cross(xs, ys)
    IN  IF RLt(RAbs(ortho.z), Rat(1, 8))
        THEN [some |-> FALSE]
        ELSE [some |-> TRUE,
              bc |-> Vec3(RSub(F(1), RDiv(RAdd(ortho.x, ortho.y), ortho.z)),
                          RDiv(ortho.y, ortho.z),
                          RDiv(ortho.x, ortho.z))]

\* barycentric with the weights of b and c exchanged.
barycentric_swapped(a, b, c, p) ==
    LET ab == Vec2(RSub(b.x, a.x), RSub(b.y, a.y))
        ac == Vec2(RSub(c.x, a.x), RSub(c.y, a.y))
        pa == Vec2(RSub(a.x, p.x), RSub(a.y, p.y))
        xs == Vec3(ac.x, ab.x, pa.x)
        ys == Vec3(ac.y, ab.y, pa.y)
        ortho == cross(xs, ys)
    IN  IF RLt(RAbs(ortho.z), F(1))
        THEN [some |-> FALSE]
        ELSE [some |-> TRUE,
              bc |-> Vec3(RSub(F(1), RDiv(RAdd(ortho.x, ortho.y), ortho.z)),
                          RDiv(ortho.x, ortho.z),
                          RDiv(ortho.y, ortho.z))]

\* barycentric: [some |-> FALSE] is None.
barycentric(a, b, c, p) ==
    LET ab == Vec2(RSub(b.x, a.x), RSub(b.y, a.y))
        ac == Vec2(RSub(c.x, a.x), RSub(c.y, a.y))
        pa == Vec2(RSub(a.x, p.x), RSub(a.y, p.y))
        xs == Vec3(ac.x, ab.x, pa.x)
        ys == Vec3(ac.y, ab.y, pa.y)
        ortho == cross(xs, ys)
    IN  IF RLt(RAbs(ortho.z), F(1))
        THEN [some |-> FALSE]
        ELSE [some |-> TRUE,
              bc |-> Vec3(RSub(F(1), RDiv(RAdd(ortho.x, ortho.y), ortho.z)),
                          RDiv(ortho.y, ortho.z),
                          RDiv(ortho.x, ortho.z))]

\* u8::MAX, where `as u8` saturates.
U8Max == 255

\* vec_to_rgba rounding to the nearest value instead of truncating.
vec_to_rgba_round(color) ==
    <<FloatToInt(RAdd(RMul(clamp(color.x, F(0), F(1)), F(255)), Rat(1, 2)), U8Max),
      FloatToInt(RAdd(RMul(clamp(color.y, F(0), F(1)), F(255)), Rat(1, 2)), U8Max),
      FloatToInt(RAdd(RMul(clamp(color.z, F(0), F(1)), F(255)), Rat(1, 2)), U8Max),
      FloatToInt(RAdd(RMul(clamp(color.w, F(0), F(1)), F(255)), Rat(1, 2)), U8Max)>>

\* vec_to_rgba scaling by 256.
vec_to_rgba_256(color) ==
    <<FloatToInt(RMul(clamp(color.x, F(0), F(1)), F(256)), U8Max),
      FloatToInt(RMul(clamp(color.y, F(0), F(1)), F(256)), U8Max),
      FloatToInt(RMul(clamp(color.z, F(0), F(1)), F(256)), U8Max),
      FloatToInt(RMul(clamp(color.w, F(0), F(1)), F(256)), U8Max)>>

vec_to_rgba(color) ==
    <<FloatToInt(RMul(clamp(color.x, F(0), F(1)), F(255)), U8Max),
      FloatToInt(RMul(clamp(color.y, F(0), F(1)), F(255)), U8Max),
      FloatToInt(RMul(clamp(color.z, F(0), F(1)), F(255)), U8Max),
      FloatToInt(RMul(clamp(color.w, F(0), F(1)), F(255)), U8Max)>>

world_to_screen(world_coords, half_width, half_height) ==
    Vec4(RMul(RAdd(world_coords.x, F(1)), half_width),
         RMul(RAdd(world_coords.y, F(1)), half_height),
         clamp(world_coords.z, F(-1), F(1)),
         world_coords.w)

(***************************************************************************)
(* image.rs: Image::sample_nearest of an RgbaImage.                        *)
(***************************************************************************)
\* <Rgba<T> as Into<Vector4<T>>>::into: the four channels as they are stored.
rgba_into_vector4(pixel) == Vec4(pixel[1], pixel[2], pixel[3], pixel[4])

\* sample_nearest scaling by the size instead of the largest coordinate.
sample_coord_by_size(t, size) ==
    as_u32(RMul(clamp(t, F(0), F(1)), F(size)))

\* The pixel coordinate sample_nearest computes from one of u, v and the
\* width or height of the image.
sample_coord(t, size) ==
    as_u32(RMul(clamp(t, F(0), F(1)), F(saturating_sub1(size))))

\* sample_nearest with the coordinates exchanged in the call of pixel.
Image_sample_nearest_transposed(image, uv) ==
    LET x == sample_coord(uv.x, image.width)
        y == sample_coord(uv.y, image.height)
        pixel == Image_pixel(image, y, x)
    IN  IF pixel.panic THEN Panic ELSE Ok(rgba_into_vector4(pixel.val))

\* Image::sample_nearest
Image_sample_nearest(image, uv) ==
    LET x == sample_coord(uv.x, image.width)
        y == sample_coord(uv.y, image.height)
        pixel == Image_pixel(image, x, y)
    IN  IF pixel.panic THEN Panic ELSE Ok(rgba_into_vector4(pixel.val))

(***************************************************************************)
(* State.                                                                  *)
(*   draw    one call of Pipeline::triangles: the pipeline's cull_face,    *)
(*           the arguments buffer, image_color and image_depth, the        *)
(*           position pc in the call, the locals of the loops (i, x, y,    *)
(*           var_a.., the screen positions a, b, c and the bounding box)   *)
(*           and a record of what the call did: vlog lists the buffer      *)
(*           indices handed to the vertex stage, culled the culling        *)
(*           decision of each triangle, nfrag counts fragment invocations, *)
(*           last tells what the last sample did, color0 and depth0 are    *)
(*           the images as they were at the call.                          *)
(*   img     the image of the image-buffer machine; shadow, res and nops   *)
(*           record the values written, the last operation and the number  *)
(*           of operations.                                                *)
(*   ctor    an Image::from_raw call and its outcome.                      *)
(***************************************************************************)
VARIABLES draw, img, shadow, res, nops, ctor

vars == <<draw, img, shadow, res, nops, ctor>>

\* Values of the variables of a machine that is not running.
Off == [pc |-> "off"]

(***************************************************************************)
(* lib.rs: Pipeline::triangles and Pipeline::triangle, one step at a time. *)
(***************************************************************************)
Abort(s) == [s EXCEPT !.pc = "panicked"]

\* Pipeline::triangles entering its loop without the assertions.
triangles_enter_unchecked(s) ==
    [s EXCEPT !.pc = "loop", !.i = 0,
              !.var_a = VaryingDefault,
              !.var_b = VaryingDefault,
              !.var_c = VaryingDefault]

\* Pipeline::triangles up to its loop: the assertions on the dimensions and
\* the three default varyings.
triangles_enter(s) ==
    LET width == s.image_color.width
        height == s.image_color.height
    IN  IF width # s.image_depth.width \/ height # s.image_depth.height
        THEN Abort(s)
        ELSE [s EXCEPT !.pc = "loop", !.i = 0,
                       !.var_a = VaryingDefault,
                       !.var_b = VaryingDefault,
                       !.var_c = VaryingDefault]

\* The loop running over one triangle less, and the loop of a pipeline that
\* draws nothing unless the length of the buffer is a multiple of 3.
HasTriangle_short(s) == s.i + 1 < Len(s.buffer) \div 3
HasTriangle_strict(s) == Len(s.buffer) % 3 = 0 /\ s.i < Len(s.buffer) \div 3

\* Whether the loop `for i in 0..buffer.len() / 3` has an iteration left.
HasTriangle(s) == s.i < Len(s.buffer) \div 3

\* One iteration of the loop of Pipeline::triangles up to the pixel loops of
\* Pipeline::triangle: the vertex stage, culling, the screen positions and
\* the bounding box.
triangles_iteration(s) ==
    LET width == s.image_color.width
        height == s.image_color.height
        half_width == F(width \div 2)
        half_height == F(height \div 2)
        attr == s.i * 3
        va == vertex(s.buffer[attr + 1], s.var_a)
        vb == vertex(s.buffer[attr + 2], s.var_b)
        vc == vertex(s.buffer[attr + 3], s.var_c)
        world_a == va.pos
        world_b == vb.pos
        world_c == vc.pos
        normal == cull_normal(world_a, world_b, world_c)
        cull == s.cull_face # "None" /\ do_cull(s.cull_face, normal)
        screen_a == world_to_screen(from_homogenous(world_a), half_width, half_height)
        screen_b == world_to_screen(from_homogenous(world_b), half_width, half_height)
        screen_c == world_to_screen(from_homogenous(world_c), half_width, half_height)
        box == bounding_box(xy(screen_a), xy(screen_b), xy(screen_c), width, height)
        s1 == [s EXCEPT !.var_a = va.var, !.var_b = vb.var, !.var_c = vc.var,
                        !.vlog = @ \o <<attr, attr + 1, attr + 2>>,
                        !.culled = Append(@, cull)]
    IN  IF cull
        THEN [s1 EXCEPT !.i = @ + 1]
        ELSE IF \/ box.topleft.x > box.bottomright.x
                \/ box.topleft.y > box.bottomright.y
             THEN [s1 EXCEPT !.i = @ + 1]
             ELSE [s1 EXCEPT !.pc = "raster",
                             !.a = screen_a, !.b = screen_b, !.c = screen_c,
                             !.box = box,
                             !.x = box.topleft.x, !.y = box.topleft.y]

\* The loops `for x in topleft.x..=bottomright.x` and `for y in
\* topleft.y..=bottomright.y`: the sample after (x, y), or the next triangle.
next_sample(s) ==
    IF s.y < s.box.bottomright.y
    THEN [s EXCEPT !.y = @ + 1]
    ELSE IF s.x < s.box.bottomright.x
         THEN [s EXCEPT !.x = @ + 1, !.y = s.box.topleft.y]
         ELSE [s EXCEPT !.pc = "loop", !.i = @ + 1]

\* Whether a barycentric triple passes `bc.x < 0.0 || bc.y < 0.0 || bc.z < 0.0`.
inside(bc) == ~(RLt(bc.x, F(0)) \/ RLt(bc.y, F(0)) \/ RLt(bc.z, F(0)))

\* The fragment position with z left in NDC.
frag_pos_ndc(a, b, c, bc) == interpolate4(a, b, c, bc)

\* The fragment position: the interpolated screen position with z remapped
\* from NDC to [0, 1].
frag_pos(a, b, c, bc) ==
    LET f_pos == interpolate4(a, b, c, bc)
    IN  [f_pos EXCEPT !.z = RAdd(RDiv(@, F(2)), Rat(1, 2))]

\* The depth test as GL_GREATER and as GL_LEQUAL.
depth_test_greater(f_depth, stored) == RLt(stored[1], f_depth[1])
depth_test_lequal(f_depth, stored) == RLe(f_depth[1], stored[1])

\* The depth test as GL_ALWAYS and as GL_NOTEQUAL.
depth_test_always(f_depth, stored) == TRUE
depth_test_notequal(f_depth, stored) == f_depth[1] # stored[1]

\* GL_LESS: `&f_depth < image_depth.pixel(x, flipped_y)` on Depth<f64>.
depth_test(f_depth, stored) == RLt(f_depth[1], stored[1])

\* The image row of the sample row y without the flip.
flip_y_none(height, y) == y

\* `let flipped_y = height - 1 - y`: the image row of the sample row y.
flip_y(height, y) == height - 1 - y

\* A sample whose fragment failed the depth test: a pipeline that runs the
\* fragment stage before the test, and the source's, which does nothing.
rejected_after_fragment(s) == next_sample([s EXCEPT !.last = "rejected", !.nfrag = @ + 1])
rejected(s) == next_sample([s EXCEPT !.last = "rejected"])

\* The body of the pixel loops of Pipeline::triangle at the sample (x, y).
triangle_sample(s) ==
    LET height == s.image_color.height
        point == Vec2(F(s.x), F(s.y))
        b == barycentric(xy(s.a), xy(s.b), xy(s.c), point)
    IN  IF ~b.some THEN next_sample([s EXCEPT !.last = "degenerate"])
        ELSE IF ~inside(b.bc) THEN next_sample([s EXCEPT !.last = "outside"])
        ELSE
          LET f_pos == frag_pos(s.a, s.b, s.c, b.bc)
              f_depth == <<f_pos.z>>
              flipped_y == flip_y(height, s.y)
              stored == Image_pixel(s.image_depth, s.x, flipped_y)
              f_var == interpolateVarying(s.var_a, s.var_b, s.var_c, b.bc)
              f_color == fragment(f_pos, f_var)
              d == Image_set_pixel(s.image_depth, s.x, flipped_y, f_depth)
              c == Image_set_pixel(s.image_color, s.x, flipped_y, vec_to_rgba(f_color))
          IN  IF flipped_y < 0 THEN Abort(s)
              ELSE IF stored.panic THEN Abort(s)
              ELSE IF ~depth_test(f_depth, stored.val)
                   THEN rejected(s)
              ELSE IF d.panic THEN Abort([s EXCEPT !.nfrag = @ + 1])
              ELSE IF c.panic
                   THEN Abort([s EXCEPT !.nfrag = @ + 1, !.image_depth = d.val])
                   ELSE next_sample([s EXCEPT !.nfrag = @ + 1,
                                              !.last = "written",
                                              !.image_depth = d.val,
                                              !.image_color = c.val])

\* The return of Pipeline::triangles.
triangles_return(s) == [s EXCEPT !.pc = "done"]

\* One step of a call; RunToEnd is the call run to its end.
Step(s) ==
    CASE s.pc = "call" -> triangles_enter(s)
      [] s.pc = "loop" /\ HasTriangle(s) -> triangles_iteration(s)
      [] s.pc = "loop" /\ ~HasTriangle(s) -> triangles_return(s)
      [] s.pc = "raster" -> triangle_sample(s)
      [] OTHER -> s

\* The pixel loops `for x in topleft.x..=bottomright.x` and `for y in
\* topleft.y..=bottomright.y` of one triangle: RunSamples runs the next n
\* samples, or as many as the triangle has left, and RunRaster the samples
\* from (x, y) on, of which the bounding box holds no more than its area.
RECURSIVE RunSamples(_, _)
RunSamples(s, n) ==
    IF n = 0 \/ s.pc # "raster" THEN s
    ELSE IF n = 1 THEN triangle_sample(s)
    ELSE RunSamples(RunSamples(s, n \div 2), n - n \div 2)

RunRaster(s) ==
    RunSamples(s, (s.box.bottomright.x - s.box.topleft.x + 1)
                    * (s.box.bottomright.y - s.box.topleft.y + 1))

RECURSIVE RunToEnd(_)
RunToEnd(s) ==
    IF s.pc \in {"done", "panicked"} THEN s
    ELSE RunToEnd(IF s.pc = "raster" THEN RunRaster(s) ELSE Step(s))

(***************************************************************************)
(* The inputs of a draw call.                                              *)
(***************************************************************************)
Red == Vec4(F(1), F(0), F(0), F(1))
Green == Vec4(F(0), F(1), F(0), F(1))
Blue == Vec4(F(0), F(0), F(1), F(1))

\* The clear values of the examples: black() and depth().
Black == <<0, 0, 0, 255>>
DepthClear == <<F(1)>>

\* An attribute at clip position (x, y, z, 1).
Attr(x, y, z, clr) == [pos |-> Vec4(F(x), F(y), z, F(1)), clr |-> clr]

\* A triangle over every sample of the image, at one depth.
FullTri(z, clr) == <<Attr(-1, -1, z, clr), Attr(3, -1, z, clr), Attr(-1, 3, z, clr)>>
\* The same triangle with a depth per vertex.
SlopedTri(za, zb, zc, clr) ==
    <<Attr(-1, -1, za, clr), Attr(3, -1, zb, clr), Attr(-1, 3, zc, clr)>>
\* A triangle over the samples right of the middle of the image.
RightTri(z, clr) == <<Attr(0, -1, z, clr), Attr(1, -1, z, clr), Attr(0, 1, z, clr)>>
\* Three collinear vertices.
LineTri(z, clr) == <<Attr(-1, 0, z, clr), Attr(0, 0, z, clr), Attr(1, 0, z, clr)>>
\* FullTri with its last vertex given at w = -1: the clip positions wind the
\* other way round than the positions after the homogeneous divide.
WTri(z, clr) ==
    <<Attr(-1, -1, z, clr), Attr(3, -1, z, clr),
      [pos |-> Vec4(F(1), F(-3), RSub(F(0), z), F(-1)), clr |-> clr]>>
\* (a, b, c) with the opposite winding: (a, c, b).
Swap(t) == <<t[1], t[3], t[2]>>

Catalogue ==
    { FullTri(Rat(-1, 2), Red),
      FullTri(Rat(1, 2), Green),
      Swap(FullTri(Rat(-1, 2), Green)),
      FullTri(F(1), Blue),
      RightTri(F(0), Blue),
      Swap(RightTri(F(-1), Red)),
      LineTri(F(0), Red),
      SlopedTri(F(-1), F(1), F(1), Green),
      WTri(F(0), Blue) }

RECURSIVE Flatten(_)
Flatten(ts) == IF ts = <<>> THEN <<>> ELSE Head(ts) \o Flatten(Tail(ts))

Buffers == { Flatten(ts) : ts \in UNION { [1..k -> Catalogue] : k \in 0..MaxTris } }

CullModes == {"None", "Front", "Back", "FrontAndBack"}

Dims == (0..MaxDim) \X (0..MaxDim)

\* The depth image has the dimensions of the color image, or differs by one in
\* its width or in its height.
DepthDims(d) ==
    { e \in { <<d[1] + k[1], d[2] + k[2]>> :
                k \in {<<0, 0>>, <<1, 0>>, <<0, -1>>} } :
        e[1] >= 0 /\ e[2] >= 0 }

\* RgbaImage::from_pixel(w, h, black()) and DepthImage::from_pixel(w, h, depth())
ClearedColor(d) == Image_from_pixel(d[1], d[2], RgbaChannels, 0, Black, TRUE).val
ClearedDepth(d) ==
    Image_from_pixel(d[1], d[2], DepthChannels, F(0), DepthClear, TRUE).val

\* The state at the call of Pipeline::triangles.
DrawCall(cull_face, buffer, image_color, image_depth) ==
    [pc |-> "call", cull_face |-> cull_face, buffer |-> buffer,
     image_color |-> image_color, image_depth |-> image_depth,
     i |-> 0, x |-> 0, y |-> 0,
     var_a |-> VaryingDefault, var_b |-> VaryingDefault, var_c |-> VaryingDefault,
     a |-> Vec4(F(0), F(0), F(0), F(0)),
     b |-> Vec4(F(0), F(0), F(0), F(0)),
     c |-> Vec4(F(0), F(0), F(0), F(0)),
     box |-> [topleft |-> Vec2(0, 0), bottomright |-> Vec2(0, 0)],
     vlog |-> <<>>, culled |-> <<>>, nfrag |-> 0, last |-> "none",
     color0 |-> image_color, depth0 |-> image_depth]

(***************************************************************************)
(* The draw machine: one call of Pipeline::triangles on cleared images.    *)
(***************************************************************************)
Init ==
    /\ \E cull_face \in CullModes, buffer \in Buffers, d \in Dims :
         \E e \in DepthDims(d) :
           draw = DrawCall(cull_face, buffer, ClearedColor(d), ClearedDepth(e))
    /\ img = Off /\ shadow = Off /\ res = Off /\ nops = 0 /\ ctor = Off

Enter ==
    /\ draw.pc = "call"
    /\ draw' = triangles_enter(draw)
    /\ UNCHANGED <<img, shadow, res, nops, ctor>>

Triangle ==
    /\ draw.pc = "loop" /\ HasTriangle(draw)
    /\ draw' = triangles_iteration(draw)
    /\ UNCHANGED <<img, shadow, res, nops, ctor>>

Sample ==
    /\ draw.pc = "raster"
    /\ draw' = triangle_sample(draw)
    /\ UNCHANGED <<img, shadow, res, nops, ctor>>

Return ==
    /\ draw.pc = "loop" /\ ~HasTriangle(draw)
    /\ draw' = triangles_return(draw)
    /\ UNCHANGED <<img, shadow, res, nops, ctor>>

Next == Enter \/ Triangle \/ Sample \/ Return

Spec == Init /\ [][Next]_vars

(***************************************************************************)
(* The draw machine on buffers of any length: whole triangles, among them  *)
(* degenerate ones, followed by up to two entries that make no triangle.   *)
(***************************************************************************)
\* A triangle whose screen-space cross product is 1/4 on an image two or three
\* pixels wide and high: its vertices are not collinear.
TinyTri(z, clr) ==
    <<[pos |-> Vec4(F(0), F(0), z, F(1)), clr |-> clr],
      [pos |-> Vec4(Rat(1, 2), F(0), z, F(1)), clr |-> clr],
      [pos |-> Vec4(F(0), Rat(1, 2), z, F(1)), clr |-> clr]>>

SmallCatalogue ==
    { FullTri(Rat(-1, 2), Red),
      Swap(RightTri(F(0), Blue)),
      LineTri(F(0), Green),
      TinyTri(F(0), Green) }

\* The entries after the last whole triangle.
Tails ==
    { SubSeq(FullTri(Rat(1, 2), Green), 1, n) : n \in 0..2 }

AnyBuffers ==
    { Flatten(ts) \o tail :
        ts \in UNION { [1..k -> SmallCatalogue] : k \in 0..MaxTris },
        tail \in Tails }

InitBuffers ==
    /\ \E cull_face \in CullModes, buffer \in AnyBuffers, d \in Dims :
         draw = DrawCall(cull_face, buffer, ClearedColor(d), ClearedDepth(d))
    /\ img = Off /\ shadow = Off /\ res = Off /\ nops = 0 /\ ctor = Off

SpecBuffers == InitBuffers /\ [][Next]_vars

(***************************************************************************)
(* Draw calls without culling whose triangles lie on, partly off and       *)
(* wholly off the image: left of, right of, below and above it, and one    *)
(* with its vertices a thousand NDC units away.                            *)
(***************************************************************************)
\* The triangle (x0, y0), (x0 + n, y0), (x0, y0 + n) in NDC at depth z.
BoxTri(x0, y0, n, z, clr) ==
    <<Attr(x0, y0, z, clr), Attr(x0 + n, y0, z, clr), Attr(x0, y0 + n, z, clr)>>

ClipCatalogue ==
    { FullTri(Rat(-1, 2), Red),
      Swap(FullTri(F(0), Green)),
      WTri(F(0), Blue),
      BoxTri(-2, -2, 4, Rat(1, 2), Blue),
      BoxTri(-7, -1, 4, F(0), Blue),
      BoxTri(2, -1, 4, F(0), Blue),
      BoxTri(-1, -7, 4, F(0), Blue),
      BoxTri(-1, 2, 4, F(0), Blue),
      BoxTri(-1000, -1000, 3000, Rat(-1, 4), Green),
      RightTri(Rat(-3, 4), Red) }

InitClip ==
    /\ \E ts \in UNION { [1..k -> ClipCatalogue] : k \in 1..MaxTris }, d \in Dims :
         draw = DrawCall("None", Flatten(ts), ClearedColor(d), ClearedDepth(d))
    /\ img = Off /\ shadow = Off /\ res = Off /\ nops = 0 /\ ctor = Off

SpecClip == InitClip /\ [][Next]_vars

(***************************************************************************)
(* Calls with clip positions far outside [-1, 1]: a triangle whose last    *)
(* two vertices lie at clip distance n with the w given, so that the       *)
(* homogeneous divide x / w leaves the finite range of f64 for n / w       *)
(* beyond F64Max.                                                          *)
(***************************************************************************)
FarTri(n, w, clr) ==
    <<[pos |-> Vec4(F(-1), F(-1), F(0), w), clr |-> clr],
      [pos |-> Vec4(F(n), F(-1), F(0), w), clr |-> clr],
      [pos |-> Vec4(F(-1), F(n), F(0), w), clr |-> clr]>>

FarCatalogue ==
    { FarTri(3, F(1), Red),
      FarTri(3, Rat(1, 2), Green),
      FarTri(1000000, Rat(1, 1000), Blue),
      <<Attr(-1, -1, F(0), Red), Attr(1, -1, F(0), Red),
        [pos |-> Vec4(F(-1), F(1000000), F(0), Rat(1, 1000)), clr |-> Red]>> }

InitFar ==
    /\ \E ts \in UNION { [1..k -> FarCatalogue] : k \in 1..MaxTris }, d \in Dims :
         draw = DrawCall("None", Flatten(ts), ClearedColor(d), ClearedDepth(d))
    /\ img = Off /\ shadow = Off /\ res = Off /\ nops = 0 /\ ctor = Off

SpecFar == InitFar /\ [][Next]_vars

(***************************************************************************)
(* Pipeline::triangles as one operation: draw calls of one triangle        *)
(* without culling on cleared images, each run from the call to its        *)
(* return.  The triangles are one with a red, a green and a blue vertex,   *)
(* one over every sample, three collinear vertices and a triangle of a     *)
(* quarter of the area of a sample in NDC; the images are 100 x 100 for    *)
(* the first and up to MaxScreen x MaxScreen for all of them.              *)
(***************************************************************************)
RgbTri == <<Attr(-1, -1, F(0), Red), Attr(1, -1, F(0), Green), Attr(0, 1, F(0), Blue)>>

Scenarios ==
    { [buffer |-> RgbTri, dims |-> <<100, 100>>] }
      \cup { [buffer |-> t, dims |-> d] :
               t \in { RgbTri, FullTri(F(0), Red), LineTri(F(0), Red),
                       TinyTri(F(0), Red) },
               d \in (1..MaxScreen) \X (1..MaxScreen) }

InitScenario ==
    /\ \E sc \in Scenarios :
         draw = DrawCall("None", sc.buffer, ClearedColor(sc.dims),
                         ClearedDepth(sc.dims))
    /\ img = Off /\ shadow = Off /\ res = Off /\ nops = 0 /\ ctor = Off

\* pipeline.triangles(&shader, &buffer, &mut image_color, &mut image_depth)
Draw ==
    /\ draw.pc = "call"
    /\ draw' = RunToEnd(draw)
    /\ UNCHANGED <<img, shadow, res, nops, ctor>>

SpecScenario == InitScenario /\ [][Draw]_vars

(***************************************************************************)
(* Two triangles drawn by one call on cleared images, and the same call    *)
(* made once more on the images the first call left.  `shadow` is the      *)
(* first call as it returned.                                              *)
(***************************************************************************)
InitTwice ==
    /\ \E cull_face \in CullModes, t1 \in Catalogue, t2 \in Catalogue, d \in Dims :
         draw = DrawCall(cull_face, t1 \o t2, ClearedColor(d), ClearedDepth(d))
    /\ img = Off /\ shadow = Off /\ res = Off /\ nops = 0 /\ ctor = Off

\* The second pipeline.triangles(..) with the same buffer and the same images.
Again ==
    /\ draw.pc = "done" /\ shadow.pc = "off"
    /\ shadow' = draw
    /\ draw' = DrawCall(draw.cull_face, draw.buffer, draw.image_color,
                        draw.image_depth)
    /\ UNCHANGED <<img, res, nops, ctor>>

SpecTwice == InitTwice /\ [][Draw \/ Again]_vars

(***************************************************************************)
(* A program using an image: the image comes from one of the constructors, *)
(* then set_pixel, clear and pixel are called on it.  `shadow` records for *)
(* every coordinate of the image the pixel it holds by the contract of the *)
(* operations called so far; `res` is the last call and its outcome.       *)
(***************************************************************************)
\* The pixel formats: Rgba<u8> and Depth<f64>.
Formats == {"Rgba", "Depth"}

\* Pixel::channel_count, and Zero::zero of the channel type.
channel_count(fmt) == IF fmt = "Rgba" THEN RgbaChannels ELSE DepthChannels
zero(fmt) == IF fmt = "Rgba" THEN 0 ELSE F(0)

\* The pixels the program writes.
Pixels(fmt) ==
    IF fmt = "Rgba" THEN {Black, <<255, 0, 0, 255>>}
    ELSE {DepthClear, <<Rat(1, 2)>>}

\* A raw buffer of n elements, each different from the others.
RawBuffer(n, fmt) ==
    [k \in 1..n |-> IF fmt = "Rgba" THEN k ELSE F(k)]

\* The coordinates the program passes to pixel and set_pixel.
Coords == 0..(MaxDim + 1)

\* The coordinates of the pixels of an image.
InBounds(image) == (0..(image.width - 1)) \X (0..(image.height - 1))

\* The record of a call and its outcome.
Call(op, x, y, panic, out) ==
    [op |-> op, x |-> x, y |-> y, panic |-> panic, out |-> out]

InitImage ==
    /\ draw = Off /\ ctor = Off /\ nops = 0
    /\ \E d \in Dims, fmt \in Formats :
         \/ /\ img = Image_new(d[1], d[2], channel_count(fmt), zero(fmt), TRUE).val
            /\ shadow = [p \in InBounds(img) |->
                            [k \in 1..channel_count(fmt) |-> zero(fmt)]]
            /\ res = Call("new", 0, 0, FALSE, <<>>)
         \/ \E pixel \in Pixels(fmt) :
              /\ img = Image_from_pixel(d[1], d[2], channel_count(fmt), zero(fmt),
                                        pixel, TRUE).val
              /\ shadow = [p \in InBounds(img) |-> pixel]
              /\ res = Call("from_pixel", 0, 0, FALSE, <<>>)
         \/ \E extra \in 0..MaxExtra :
              LET buffer == RawBuffer(d[1] * d[2] * channel_count(fmt) + extra, fmt)
              IN  /\ img = Image_from_raw(buffer, d[1], d[2], channel_count(fmt),
                                          TRUE).val.image
                  /\ shadow = [p \in InBounds(img) |->
                                 SubSeq(buffer,
                                        channel_count(fmt) * (p[2] * d[1] + p[1]) + 1,
                                        channel_count(fmt) * (p[2] * d[1] + p[1] + 1))]
                  /\ res = Call("from_raw", 0, 0, FALSE, <<>>)

\* The pixels of the format of the image.
ImagePixels ==
    Pixels(CHOOSE fmt \in Formats : channel_count(fmt) = img.channels)

\* A panic ends the program.
Running == img # Off /\ ~res.panic /\ nops < MaxOps

SetPixel ==
    /\ Running
    /\ \E x \in Coords, y \in Coords, pixel \in ImagePixels :
         LET r == Image_set_pixel(img, x, y, pixel)
         IN  /\ img' = IF r.panic THEN img ELSE r.val
             /\ shadow' = IF ~r.panic /\ <<x, y>> \in DOMAIN shadow
                          THEN [shadow EXCEPT ![<<x, y>>] = pixel]
                          ELSE shadow
             /\ res' = Call("set_pixel", x, y, r.panic, <<>>)
    /\ nops' = nops + 1
    /\ UNCHANGED <<draw, ctor>>

Clear ==
    /\ Running
    /\ \E pixel \in ImagePixels :
         /\ img' = Image_clear(img, pixel)
         /\ shadow' = [p \in DOMAIN shadow |-> pixel]
    /\ res' = Call("clear", 0, 0, FALSE, <<>>)
    /\ nops' = nops + 1
    /\ UNCHANGED <<draw, ctor>>

Pixel ==
    /\ Running
    /\ \E x \in Coords, y \in Coords :
         LET r == Image_pixel(img, x, y)
         IN  res' = Call("pixel", x, y, r.panic,
                         IF r.panic THEN <<>> ELSE r.val)
    /\ nops' = nops + 1
    /\ UNCHANGED <<draw, img, shadow, ctor>>

NextImage == SetPixel \/ Clear \/ Pixel

SpecImage == InitImage /\ [][NextImage]_vars

(***************************************************************************)
(* A program constructing an image with Image::new or Image::from_raw, for *)
(* widths and heights over the range of a u32 and for the two builds, with *)
(* and without overflow checks, and then reading pixels of the image.      *)
(***************************************************************************)
\* The widths and heights of SpecCtor: the small ones, and the ones about the
\* middle and at the end of the range of a u32.
CtorDims ==
    (0..MaxDim) \cup {Pow2(U32Bits - 1) - 1, Pow2(U32Bits - 1), U32Max}

CtorCall(fn, fmt, buffer, width, height, overflow_checks) ==
    [pc |-> "call", fn |-> fn, fmt |-> fmt, buffer |-> buffer,
     width |-> width, height |-> height,
     overflow_checks |-> overflow_checks,
     image |-> Off, x |-> 0, y |-> 0, out |-> Off]

InitCtor ==
    /\ draw = Off /\ img = Off /\ shadow = Off /\ res = Off /\ nops = 0
    /\ \E fmt \in Formats, width \in CtorDims, height \in CtorDims,
          overflow_checks \in BOOLEAN :
         \/ ctor = CtorCall("new", fmt, <<>>, width, height, overflow_checks)
         \/ \E n \in 0..MaxRaw :
              ctor = CtorCall("from_raw", fmt, RawBuffer(n, fmt), width,
                              height, overflow_checks)

New ==
    /\ ctor.pc = "call" /\ ctor.fn = "new"
    /\ LET r == Image_new(ctor.width, ctor.height, channel_count(ctor.fmt),
                          zero(ctor.fmt), ctor.overflow_checks)
       IN  ctor' = IF r.panic THEN [ctor EXCEPT !.pc = "panicked"]
                   ELSE [ctor EXCEPT !.pc = "some", !.image = r.val]
    /\ UNCHANGED <<draw, img, shadow, res, nops>>

FromRaw ==
    /\ ctor.pc = "call" /\ ctor.fn = "from_raw"
    /\ LET r == Image_from_raw(ctor.buffer, ctor.width, ctor.height,
                               channel_count(ctor.fmt), ctor.overflow_checks)
       IN  ctor' = IF r.panic THEN [ctor EXCEPT !.pc = "panicked"]
                   ELSE IF r.val.some
                        THEN [ctor EXCEPT !.pc = "some", !.image = r.val.image]
                        ELSE [ctor EXCEPT !.pc = "none"]
    /\ UNCHANGED <<draw, img, shadow, res, nops>>

\* Image::pixel at a coordinate of the constructed image.
ReadPixel ==
    /\ ctor.pc = "some"
    /\ \E x \in Coords, y \in Coords :
         /\ <<x, y>> \in InBounds(ctor.image)
         /\ ctor' = [ctor EXCEPT !.pc = "read", !.x = x, !.y = y,
                                 !.out = Image_pixel(ctor.image, x, y)]
    /\ UNCHANGED <<draw, img, shadow, res, nops>>

NextCtor == New \/ FromRaw \/ ReadPixel

SpecCtor == InitCtor /\ [][NextCtor]_vars

(***************************************************************************)
(* A program sampling a texture: an RgbaImage<u8> is constructed and then  *)
(* sample_nearest is called on it with any uv.  `res` is the last call:    *)
(* its uv, the coordinates handed to Image::pixel and the outcome.         *)
(***************************************************************************)
\* The 2x2 texture red, green, blue, white in row-major order.
Texture2x2 ==
    <<255, 0, 0, 255,  0, 255, 0, 255,  0, 0, 255, 255,  255, 255, 255, 255>>

\* The values of u and of v.
UVs == {NegInf, F(-1), F(0), Rat(1, 3), Rat(1, 2), Rat(3, 4), F(1), F(2),
        PosInf, NaN}

SampleCall(op, uv, x, y, panic, out) ==
    [op |-> op, uv |-> uv, x |-> x, y |-> y, panic |-> panic, out |-> out]

InitSample ==
    /\ draw = Off /\ ctor = Off /\ shadow = Off /\ nops = 0
    /\ res = SampleCall("none", <<F(0), F(0)>>, 0, 0, FALSE, <<>>)
    /\ \/ \E d \in Dims, extra \in 0..MaxExtra :
             img = Image_from_raw(
                       RawBuffer(d[1] * d[2] * RgbaChannels + extra, "Rgba"),
                       d[1], d[2], RgbaChannels, TRUE).val.image
       \/ \E d \in Dims, pixel \in Pixels("Rgba") :
             img = Image_from_pixel(d[1], d[2], RgbaChannels, 0, pixel,
                                    TRUE).val
       \/ img = Image_from_raw(Texture2x2, 2, 2, RgbaChannels, TRUE).val.image

SampleNearest ==
    /\ ~res.panic
    /\ \E u \in UVs, v \in UVs :
         LET r == Image_sample_nearest(img, Vec2(u, v))
         IN  res' = SampleCall("sample_nearest", <<u, v>>,
                               sample_coord(u, img.width),
                               sample_coord(v, img.height),
                               r.panic, IF r.panic THEN <<>> ELSE r.val)
    /\ UNCHANGED <<draw, img, shadow, nops, ctor>>

NextSample == SampleNearest

SpecSample == InitSample /\ [][NextSample]_vars

(***************************************************************************)
(* lib.rs: vec_to_rgba applied to a fragment color whose components are    *)
(* below, in and above [0, 1], infinite or NaN.                            *)
(***************************************************************************)
InitQuant ==
    /\ draw = Off /\ img = Off /\ shadow = Off /\ nops = 0 /\ ctor = Off
    /\ LET Values == { NegInf, F(-1), F(0), Rat(1, 510), Rat(1, 2), Rat(254, 255),
                       Rat(509, 510), F(1), F(2), PosInf, NaN }
       IN  \E x \in Values, y \in Values, z \in Values, w \in Values :
             res = [pc |-> "call", color |-> Vec4(x, y, z, w), out |-> <<>>]

Quantize ==
    /\ res.pc = "call"
    /\ res' = [res EXCEPT !.pc = "done", !.out = vec_to_rgba(res.color)]
    /\ UNCHANGED <<draw, img, shadow, nops, ctor>>

SpecQuant == InitQuant /\ [][Quantize]_vars

(***************************************************************************)
(* What the claims about a draw call speak of.                             *)
(***************************************************************************)
\* The screen positions of triangle k (1, 2, ..) of the buffer of call s.
ScreenTri(s, k) ==
    LET half_width == F(s.image_color.width \div 2)
        half_height == F(s.image_color.height \div 2)
        P(n) == world_to_screen(from_homogenous(s.buffer[n].pos),
                                half_width, half_height)
    IN  [a |-> P(3 * k - 2), b |-> P(3 * k - 1), c |-> P(3 * k)]

Bary(t, x, y) == barycentric(xy(t.a), xy(t.b), xy(t.c), Vec2(F(x), F(y)))

\* Triangle t covers the sample (x, y).
Covers(t, x, y) == Bary(t, x, y).some /\ inside(Bary(t, x, y).bc)

\* The fragment depth of triangle t at the sample (x, y).
DepthAt(t, x, y) == frag_pos(t.a, t.b, t.c, Bary(t, x, y).bc).z

\* The color pixel of the fragment of triangle k of call s at the sample (x, y).
ColorAt(s, k, x, y) ==
    vec_to_rgba(interpolate4(s.buffer[3 * k - 2].clr, s.buffer[3 * k - 1].clr,
                             s.buffer[3 * k].clr, Bary(ScreenTri(s, k), x, y).bc))

\* The samples of the images of call s.
Samples(s) == (0..(s.image_color.width - 1)) \X (0..(s.image_color.height - 1))

\* The row of the images that holds the samples of row y.
FlipY(s, y) == s.image_color.height - 1 - y

\* A finished call that drew two triangles, neither culled.
DrewTwo(s) == s.pc = "done" /\ Len(s.buffer) = 6 /\ s.culled = <<FALSE, FALSE>>

\* C1 as stated: where two triangles drawn one after the other both cover a
\* sample, the depth stored is the smaller of the two fragment depths and the
\* color stored is the fragment color of a triangle with that depth.
C1_Original ==
    DrewTwo(draw) =>
      \A p \in Samples(draw) :
        LET t1 == ScreenTri(draw, 1)
            t2 == ScreenTri(draw, 2)
        IN  (Covers(t1, p[1], p[2]) /\ Covers(t2, p[1], p[2])) =>
              LET d1 == DepthAt(t1, p[1], p[2])
                  d2 == DepthAt(t2, p[1], p[2])
                  m == RMin(d1, d2)
              IN  /\ Image_pixel(draw.image_depth, p[1], FlipY(draw, p[2])) = Ok(<<m>>)
                  /\ Image_pixel(draw.image_color, p[1], FlipY(draw, p[2])).val \in
                       { ColorAt(draw, k, p[1], p[2]) :
                           k \in {k \in {1, 2} :
                                    DepthAt(ScreenTri(draw, k), p[1], p[2]) = m} }

\* C1 as amended: the depth stored is min(d1, d2); when that is below the clear
\* value 1.0 the color stored is the fragment color of the triangle with the
\* smaller depth (of the first on equal depths), and when it is 1.0 the pixel
\* keeps the color it was cleared to.
C1_DepthMonotonic ==
    DrewTwo(draw) =>
      \A p \in Samples(draw) :
        LET t1 == ScreenTri(draw, 1)
            t2 == ScreenTri(draw, 2)
        IN  (Covers(t1, p[1], p[2]) /\ Covers(t2, p[1], p[2])) =>
              LET d1 == DepthAt(t1, p[1], p[2])
                  d2 == DepthAt(t2, p[1], p[2])
                  m == RMin(d1, d2)
              IN  /\ Image_pixel(draw.image_depth, p[1], FlipY(draw, p[2])) = Ok(<<m>>)
                  /\ Image_pixel(draw.image_color, p[1], FlipY(draw, p[2])) =
                       IF RLt(m, F(1))
                       THEN Ok(ColorAt(draw, IF RLe(d1, d2) THEN 1 ELSE 2, p[1], p[2]))
                       ELSE Image_pixel(draw.color0, p[1], FlipY(draw, p[2]))

\* A finished call whose second triangle is nearer than its first at a sample
\* both cover.
C1_Witness ==
    /\ DrewTwo(draw)
    /\ \E p \in Samples(draw) :
         /\ Covers(ScreenTri(draw, 1), p[1], p[2])
         /\ Covers(ScreenTri(draw, 2), p[1], p[2])
         /\ RLt(DepthAt(ScreenTri(draw, 2), p[1], p[2]),
                DepthAt(ScreenTri(draw, 1), p[1], p[2]))
         /\ RLt(DepthAt(ScreenTri(draw, 1), p[1], p[2]), F(1))

\* The triangle being rasterized in state s.
NowTri(s) == [a |-> s.a, b |-> s.b, c |-> s.c]

\* C2: at a covered sample, a fragment whose depth is greater than or equal to
\* the stored depth leaves both images unchanged, and a fragment whose depth is
\* less than the stored depth overwrites the depth and the color of the pixel.
C2_DepthTest ==
    [][ (draw.pc = "raster" /\ Covers(NowTri(draw), draw.x, draw.y)) =>
          LET f_depth == DepthAt(NowTri(draw), draw.x, draw.y)
              yf == FlipY(draw, draw.y)
              stored == Image_pixel(draw.image_depth, draw.x, yf).val[1]
          IN  IF RLe(stored, f_depth)
              THEN /\ draw'.image_color = draw.image_color
                   /\ draw'.image_depth = draw.image_depth
              ELSE /\ Image_pixel(draw'.image_depth, draw.x, yf) = Ok(<<f_depth>>)
                   /\ Image_pixel(draw'.image_color, draw.x, yf) =
                        Ok(ColorAt(draw, draw.i + 1, draw.x, draw.y)) ]_vars

\* A fragment under test whose depth equals the depth an earlier triangle
\* stored at its pixel.
C2_Witness ==
    /\ draw.pc = "raster" /\ draw.nfrag > 0
    /\ Covers(NowTri(draw), draw.x, draw.y)
    /\ Image_pixel(draw.image_depth, draw.x, FlipY(draw, draw.y)) =
         Ok(<<DepthAt(NowTri(draw), draw.x, draw.y)>>)
    /\ RLt(DepthAt(NowTri(draw), draw.x, draw.y), F(1))

\* C3: with cull_face = FrontAndBack the color image and the depth image are,
\* at every point of the call, the images the call was given.
C3_CullAll ==
    draw.cull_face = "FrontAndBack" =>
      /\ draw.image_color = draw.color0
      /\ draw.image_depth = draw.depth0

\* A finished FrontAndBack call whose buffer holds a triangle over the image.
C3_Witness ==
    /\ draw.pc = "done" /\ draw.cull_face = "FrontAndBack"
    /\ draw.image_color.width = 2 /\ draw.image_color.height = 2
    /\ Len(draw.buffer) >= 3
    /\ \A p \in Samples(draw) : Covers(ScreenTri(draw, 1), p[1], p[2])

\* The buffer with every triangle (a, b, c) turned into (a, c, b).
RECURSIVE SwapAll(_)
SwapAll(buffer) ==
    IF Len(buffer) < 3 THEN buffer
    ELSE <<buffer[1], buffer[3], buffer[2]>> \o SwapAll(SubSeq(buffer, 4, Len(buffer)))

\* C4: a call with cull_face = Back ends with the color and depth images that
\* the call with cull_face = Front on the same images ends with when every
\* triangle (a, b, c) of the buffer is given as (a, c, b).
C4_CullSymmetry ==
    (draw.pc \in {"done", "panicked"} /\ draw.cull_face = "Back") =>
      LET t == RunToEnd(DrawCall("Front", SwapAll(draw.buffer),
                                 draw.color0, draw.depth0))
      IN  /\ t.pc = draw.pc
          /\ t.image_color = draw.image_color
          /\ t.image_depth = draw.image_depth

\* A finished Back call that culled one triangle and drew another.
C4_Witness ==
    /\ draw.pc = "done" /\ draw.cull_face = "Back" /\ draw.nfrag > 0
    /\ \E k \in 1..Len(draw.culled) : draw.culled[k]

\* The z component of (b - a) x (c - a) of three clip positions.
NormalZ(a, b, c) ==
    RSub(RMul(RSub(b.x, a.x), RSub(c.y, a.y)), RMul(RSub(b.y, a.y), RSub(c.x, a.x)))

ClipNormalZ(s, k) ==
    NormalZ(s.buffer[3 * k - 2].pos, s.buffer[3 * k - 1].pos, s.buffer[3 * k].pos)

\* C5: triangle k is discarded iff the mode is FrontAndBack, or Back with
\* n.z < 0, or Front with n.z > 0, n being (b - a) x (c - a) of the clip
\* positions; a triangle that is rasterized was not discarded.
C5_CullTable ==
    /\ \A k \in 1..Len(draw.culled) :
         draw.culled[k] <=>
           \/ draw.cull_face = "FrontAndBack"
           \/ draw.cull_face = "Back" /\ RLt(ClipNormalZ(draw, k), F(0))
           \/ draw.cull_face = "Front" /\ RLt(F(0), ClipNormalZ(draw, k))
    /\ draw.pc = "raster" =>
         /\ Len(draw.culled) = draw.i + 1
         /\ ~draw.culled[draw.i + 1]

\* A Back call that discarded a triangle whose clip positions have n.z < 0
\* while its positions after the divide by w = -1 wind the other way, and kept
\* a triangle with n.z = 0.
C5_Witness ==
    /\ draw.pc = "done" /\ draw.cull_face = "Back"
    /\ \E k \in 1..Len(draw.culled) :
         draw.culled[k] /\ draw.buffer[3 * k].pos.w = F(-1)
    /\ \E k \in 1..Len(draw.culled) :
         ~draw.culled[k] /\ ClipNormalZ(draw, k) = F(0)

\* C6: every pixel of the image holds the value last written to its coordinate
\* by set_pixel or clear, or its initial fill when nothing was written to it,
\* and a call of pixel at a coordinate of the image returns that value.
C6_BufferIntegrity ==
    img # Off =>
      /\ \A p \in InBounds(img) : Image_pixel(img, p[1], p[2]) = Ok(shadow[p])
      /\ (res.op = "pixel" /\ <<res.x, res.y>> \in InBounds(img)) =>
           (~res.panic /\ res.out = shadow[<<res.x, res.y>>])

\* C7: a call of pixel or set_pixel with x >= width or y >= height panics.
C7_OutOfBoundsPanics ==
    (/\ img # Off
     /\ res.op \in {"pixel", "set_pixel"}
     /\ (res.x >= img.width \/ res.y >= img.height)) => res.panic

\* C8: the buffer of the image, which is what into_raw returns, has exactly
\* width * height * channels elements.
C8_BufferLength ==
    img # Off =>
      /\ Len(img.buffer) = img.width * img.height * img.channels
      /\ Len(Image_into_raw(img)) = img.width * img.height * img.channels

\* C9: from_raw does not panic; it returns None exactly when the buffer has
\* fewer than width * height * channels elements, and otherwise an image of
\* the given dimensions whose pixel(x, y) is the slice of the buffer at
\* offset channels * (y * width + x).
C9_FromRaw ==
    (ctor # Off /\ ctor.fn = "from_raw") =>
      LET size == ctor.width * ctor.height * channel_count(ctor.fmt)
          offset == channel_count(ctor.fmt) * (ctor.y * ctor.width + ctor.x)
      IN  /\ ctor.pc # "panicked"
          /\ ctor.pc = "none" => Len(ctor.buffer) < size
          /\ ctor.pc \in {"some", "read"} =>
               /\ Len(ctor.buffer) >= size
               /\ Image_dimensions(ctor.image) = <<ctor.width, ctor.height>>
          /\ ctor.pc = "read" =>
               ctor.out = Ok(SubSeq(ctor.buffer, offset + 1,
                                    offset + channel_count(ctor.fmt)))

\* The color image and the depth image of call s differ in width or height.
Mismatched(s) ==
    \/ s.image_color.width # s.image_depth.width
    \/ s.image_color.height # s.image_depth.height

\* C10: a call on images of different dimensions is at its start or has
\* aborted, has invoked the vertex stage on nothing and has both images as
\* they were given.
C10_MismatchAborts ==
    Mismatched(draw) =>
      /\ draw.pc \in {"call", "panicked"}
      /\ draw.vlog = <<>>
      /\ draw.image_color = draw.color0
      /\ draw.image_depth = draw.depth0

\* An aborted call on mismatched images whose buffer holds a triangle.
C10_Witness ==
    Mismatched(draw) /\ draw.pc = "panicked" /\ Len(draw.buffer) >= 3

\* The last call of SpecSample is a sample_nearest on an image with pixels.
SampledNonEmpty ==
    res.op = "sample_nearest" /\ img.width > 0 /\ img.height > 0

\* C11: on an image with W > 0 and H > 0, sample_nearest(u, v) does not panic
\* for any u and v, the pixel it returns is the one at the coordinates it
\* computed, which lie inside the image, and sample_nearest(-inf, +inf) returns
\* what sample_nearest(0, 1) returns.
C11_UVClamp ==
    SampledNonEmpty =>
      /\ ~res.panic
      /\ res.x < img.width /\ res.y < img.height
      /\ res.out = rgba_into_vector4(Image_pixel(img, res.x, res.y).val)
      /\ res.uv = <<NegInf, PosInf>> =>
           Ok(res.out) = Image_sample_nearest(img, Vec2(F(0), F(1)))

\* sample_nearest(-inf, +inf) on the 2x2 texture returned blue, the pixel (0, 1).
C11_Witness ==
    /\ img.buffer = Texture2x2
    /\ res.uv = <<NegInf, PosInf>> /\ res.out = Vec4(0, 0, 255, 255)

\* C12: on an image with W = 0 or H = 0, sample_nearest returns (0, 0, 0, 0)
\* for every (u, v) and does not panic.
C12_ZeroDims ==
    (res.op = "sample_nearest" /\ (img.width = 0 \/ img.height = 0)) =>
      (~res.panic /\ res.out = Vec4(0, 0, 0, 0))

\* t clamped to [0, 1], for t other than NaN.
Unit(t) == IF RLt(t, F(0)) THEN F(0) ELSE IF RLt(F(1), t) THEN F(1) ELSE t

\* The largest integer not above the rational r.
Floor(r) == r[1] \div r[2]

\* The four stored channels of the pixel the claim names for the last call:
\* the pixel at (floor(clamp(u) * (W - 1)), floor(clamp(v) * (H - 1))).
NearestPixel ==
    LET x == Floor(RMul(Unit(res.uv[1]), F(img.width - 1)))
        y == Floor(RMul(Unit(res.uv[2]), F(img.height - 1)))
        offset == RgbaChannels * (y * img.width + x)
    IN  SubSeq(img.buffer, offset + 1, offset + RgbaChannels)

\* The last call is one C13 speaks of: u and v are numbers or infinite.
SampledAtNumbers ==
    SampledNonEmpty /\ res.uv[1] # NaN /\ res.uv[2] # NaN

\* The last call sampled the 2x2 texture at the corner (u, v).
AtCorner(u, v) ==
    res.op = "sample_nearest" /\ img.buffer = Texture2x2 /\ res.uv = <<F(u), F(v)>>

\* C13 as stated: the vector returned holds the channels of that pixel divided
\* by 255, and the four corners of the 2x2 texture give (1,0,0,1), (0,1,0,1),
\* (0,0,1,1) and (1,1,1,1).
C13_Original ==
    /\ SampledAtNumbers =>
         /\ ~res.panic
         /\ <<F(res.out.x), F(res.out.y), F(res.out.z), F(res.out.w)>> =
              [k \in 1..RgbaChannels |-> Rat(NearestPixel[k], U8Max)]
    /\ AtCorner(0, 0) => res.out = Vec4(1, 0, 0, 1)
    /\ AtCorner(1, 0) => res.out = Vec4(0, 1, 0, 1)
    /\ AtCorner(0, 1) => res.out = Vec4(0, 0, 1, 1)
    /\ AtCorner(1, 1) => res.out = Vec4(1, 1, 1, 1)

\* C13, amended: the vector returned holds the channels of that pixel as they
\* are stored (0..255 for a u8 image), and the four corners of the 2x2 texture
\* give (255,0,0,255), (0,255,0,255), (0,0,255,255) and (255,255,255,255).
C13_SampleNearest ==
    /\ SampledAtNumbers =>
         /\ ~res.panic
         /\ <<res.out.x, res.out.y, res.out.z, res.out.w>> = NearestPixel
    /\ AtCorner(0, 0) => res.out = Vec4(255, 0, 0, 255)
    /\ AtCorner(1, 0) => res.out = Vec4(0, 255, 0, 255)
    /\ AtCorner(0, 1) => res.out = Vec4(0, 0, 255, 255)
    /\ AtCorner(1, 1) => res.out = Vec4(255, 255, 255, 255)

\* The corner (0, 1) of the 2x2 texture was sampled and gave the stored blue.
C13_Witness == AtCorner(0, 1) /\ res.out = Vec4(0, 0, 255, 255)

\* The number of whole triangles of the buffer of call s.
Whole(s) == Len(s.buffer) \div 3

\* C14 as stated: a finished call has handed every entry of the buffer to the
\* vertex stage, once, in the order of the buffer.
C14_Original ==
    draw.pc = "done" =>
      draw.vlog = [k \in 1..Len(draw.buffer) |-> k - 1]

\* C14, amended: the buffer indices handed to the vertex stage are 0, 1, 2, ..
\* in this order, each once, and a finished call has handed over the three
\* entries of every whole triangle of the buffer and no entry after the last
\* whole triangle, whatever the culling mode and whether the triangles were
\* culled or degenerate.
C14_VertexOrder ==
    /\ draw.vlog = [k \in 1..Len(draw.vlog) |-> k - 1]
    /\ Len(draw.vlog) = 3 * Len(draw.culled)
    /\ draw.pc = "done" => Len(draw.vlog) = 3 * Whole(draw)

\* A finished call with Back culling on a 2x2 image whose first triangle was
\* drawn and whose second was culled.
C14_Witness ==
    /\ draw.pc = "done" /\ draw.cull_face = "Back"
    /\ draw.image_color.width = 2 /\ draw.image_color.height = 2
    /\ draw.vlog = <<0, 1, 2, 3, 4, 5>>
    /\ draw.culled = <<FALSE, TRUE>>
    /\ draw.nfrag > 0

\* C15: whenever the vertex stage is about to be invoked for a triangle, the
\* three varying records handed to it are Varying::default().
C15_VaryingDefault ==
    (draw.pc = "loop" /\ HasTriangle(draw)) =>
      /\ draw.var_a = VaryingDefault
      /\ draw.var_b = VaryingDefault
      /\ draw.var_c = VaryingDefault

\* The call of s on its buffer cut after the last whole triangle, run to its end.
WithoutTail(s) ==
    RunToEnd(DrawCall(s.cull_face, SubSeq(s.buffer, 1, 3 * Whole(s)),
                      s.color0, s.depth0))

\* C16: a call on a buffer of n entries does not panic, processes floor(n / 3)
\* triangles, triangle i from the entries 3i, 3i+1, 3i+2, and ends with the
\* images the call on the buffer without its n mod 3 last entries ends with;
\* with n < 3 both images stay as they were given.
C16_WholeTriangles ==
    /\ draw.pc # "panicked"
    /\ draw.pc = "done" =>
         /\ Len(draw.culled) = Whole(draw)
         /\ draw.vlog = [k \in 1..(3 * Whole(draw)) |-> k - 1]
         /\ draw.image_color = WithoutTail(draw).image_color
         /\ draw.image_depth = WithoutTail(draw).image_depth
    /\ Len(draw.buffer) < 3 =>
         /\ draw.image_color = draw.color0
         /\ draw.image_depth = draw.depth0

\* A finished call on a buffer of five entries that drew its one triangle.
C16_Witness ==
    /\ draw.pc = "done"
    /\ draw.image_color.width = 2 /\ draw.image_color.height = 2
    /\ Len(draw.buffer) = 5 /\ draw.nfrag = 4

\* C17: a step that accepts a fragment at the sample (x, y) compared the
\* fragment depth with the depth stored at (x, H-1-y), and leaves at
\* (x, H-1-y) the fragment's color and depth and at every other coordinate of
\* both images what was there before.
C17_YFlip ==
    [][ (draw.pc = "raster" /\ draw'.pc # "panicked"
           /\ draw'.nfrag = draw.nfrag + 1) =>
          LET yf == draw.image_color.height - 1 - draw.y
              f_depth == DepthAt(NowTri(draw), draw.x, draw.y)
              f_color == ColorAt(draw, draw.i + 1, draw.x, draw.y)
          IN  /\ RLt(f_depth, Image_pixel(draw.image_depth, draw.x, yf).val[1])
              /\ \A p \in Samples(draw) :
                    /\ Image_pixel(draw'.image_depth, p[1], p[2]) =
                         IF p = <<draw.x, yf>> THEN Ok(<<f_depth>>)
                         ELSE Image_pixel(draw.image_depth, p[1], p[2])
                    /\ Image_pixel(draw'.image_color, p[1], p[2]) =
                         IF p = <<draw.x, yf>> THEN Ok(f_color)
                         ELSE Image_pixel(draw.image_color, p[1], p[2])
              /\ Len(draw'.image_depth.buffer) = Len(draw.image_depth.buffer)
              /\ Len(draw'.image_color.buffer) = Len(draw.image_color.buffer) ]_vars

\* A finished call of one triangle on images of two rows that accepted a
\* fragment at a sample (x, y): its depth is at (x, H-1-y), and (x, y) holds
\* another depth.
C17_Witness ==
    /\ draw.pc = "done" /\ Len(draw.buffer) = 3 /\ draw.nfrag > 0
    /\ draw.image_color.height = 2
    /\ \E p \in Samples(draw) :
         /\ Covers(ScreenTri(draw, 1), p[1], p[2])
         /\ RLt(DepthAt(ScreenTri(draw, 1), p[1], p[2]), F(1))
         /\ Image_pixel(draw.image_depth, p[1], 1 - p[2]) =
              Ok(<<DepthAt(ScreenTri(draw, 1), p[1], p[2])>>)
         /\ Image_pixel(draw.image_depth, p[1], p[2]) #
              Ok(<<DepthAt(ScreenTri(draw, 1), p[1], p[2])>>)

\* The color pixel that holds the sample (x, y) of call s.
PixelOfSample(s, x, y) == Image_pixel(s.image_color, x, FlipY(s, y)).val

\* Each of R, G, B of pixel p is within 1 of v, and alpha is 255.
GreyWithin1(p, v) ==
    /\ \A k \in 1..3 : p[k] \in (v - 1)..(v + 1)
    /\ p[4] = 255

\* The call of the red, green and blue triangle on images of 100 x 100.
RgbCall(s) == s.buffer = RgbTri /\ Image_dimensions(s.image_color) = <<100, 100>>

\* C18 as stated: the pixel of the sample (50, 50) ends with each of R, G, B
\* within 1 of 85 and alpha 255.
C18_Original ==
    (RgbCall(draw) /\ draw.pc = "done") =>
      GreyWithin1(PixelOfSample(draw, 50, 50), 85)

\* C18, amended: the screen triangle is (0, 0), (100, 0), (50, 100), the
\* sample (50, 50) has the weights 1/4, 1/4, 1/2 and its pixel ends as
\* (63, 63, 127, 255); the sample next to the centroid is (50, 33), and its
\* pixel ends with each of R, G, B within 1 of 85 and alpha 255.
C18_InterpolatedColor ==
    RgbCall(draw) =>
      /\ draw.pc # "panicked"
      /\ draw.pc = "done" =>
            /\ Bary(ScreenTri(draw, 1), 50, 50).bc =
                 Vec3(Rat(1, 4), Rat(1, 4), Rat(1, 2))
            /\ PixelOfSample(draw, 50, 50) = <<63, 63, 127, 255>>
            /\ GreyWithin1(PixelOfSample(draw, 50, 33), 85)

\* The finished call of the red, green and blue triangle, with the sample
\* (50, 50) drawn at depth 1/2.
C18_Witness ==
    /\ RgbCall(draw) /\ draw.pc = "done" /\ draw.nfrag > 0
    /\ Image_pixel(draw.image_depth, 50, FlipY(draw, 50)) = Ok(<<Rat(1, 2)>>)
    /\ PixelOfSample(draw, 50, 50) # Black

\* The call of the triangle (-1,-1,0,1), (3,-1,0,1), (-1,3,0,1) of the constant
\* color (1, 0, 0, 1).
FullscreenCall(s) == s.buffer = FullTri(F(0), Red)

\* Every sample of the images of call s is covered by the screen-space
\* triangle of its first triangle.
CoversAll(s) ==
    \A p \in Samples(s) : Covers(ScreenTri(s, 1), p[1], p[2])

\* C19: the call of that triangle on images cleared to (0, 0, 0, 255) and 1.0
\* and without culling does not panic, and when every sample of the images
\* lies inside the screen-space triangle, as on images of 4 x 4, the call
\* returns with every pixel (255, 0, 0, 255) and every depth 0.5.
C19_Fullscreen ==
    FullscreenCall(draw) =>
      /\ draw.pc # "panicked"
      /\ (draw.pc = "done" /\ CoversAll(draw)) =>
            \A p \in Samples(draw) :
              /\ Image_pixel(draw.image_color, p[1], p[2]) = Ok(<<255, 0, 0, 255>>)
              /\ Image_pixel(draw.image_depth, p[1], p[2]) = Ok(<<Rat(1, 2)>>)

\* The call of the triangle over every sample has returned after sixteen
\* fragments, on images that were cleared to (0, 0, 0, 255) and 1.0.
C19_Witness ==
    /\ FullscreenCall(draw) /\ draw.pc = "done" /\ draw.cull_face = "None"
    /\ draw.nfrag = 16 /\ Image_dimensions(draw.image_color) = <<4, 4>>
    /\ CoversAll(draw)
    /\ draw.color0 = ClearedColor(<<4, 4>>)
    /\ draw.depth0 = ClearedDepth(<<4, 4>>)

\* The z component of the cross product of the edges ab and ac of the
\* screen-space triangle t.
ScreenCrossZ(t) ==
    RSub(RMul(RSub(t.b.x, t.a.x), RSub(t.c.y, t.a.y)),
         RMul(RSub(t.b.y, t.a.y), RSub(t.c.x, t.a.x)))

\* C20: a call of one triangle whose screen-space cross product has
\* |cross.z| < 1 does not panic and returns with the color image and the
\* depth image as they were given and without an invocation of the fragment
\* stage.
C20_DegenerateSkip ==
    (Len(draw.buffer) = 3 /\ RLt(RAbs(ScreenCrossZ(ScreenTri(draw, 1))), F(1))) =>
      /\ draw.pc # "panicked"
      /\ draw.pc = "done" =>
            /\ draw.image_color = draw.color0
            /\ draw.image_depth = draw.depth0
            /\ draw.nfrag = 0

\* The call of the collinear vertices (-1,0,0,1), (0,0,0,1), (1,0,0,1) on
\* images of 4 x 4 has returned, after barycentric rejected the samples of
\* the bounding box.
C20_Witness ==
    /\ draw.pc = "done" /\ draw.buffer = LineTri(F(0), Red)
    /\ Image_dimensions(draw.image_color) = <<4, 4>>
    /\ ScreenCrossZ(ScreenTri(draw, 1)) = F(0)
    /\ draw.culled = <<FALSE>> /\ draw.last = "degenerate"

\* The call of s with its two triangles in the other order, on the images s
\* was given, run to its end.
Reversed(s) ==
    RunToEnd(DrawCall(s.cull_face, SubSeq(s.buffer, 4, 6) \o SubSeq(s.buffer, 1, 3),
                      s.color0, s.depth0))

\* C21: a call of two triangles whose fragment depths differ at every sample
\* both cover ends with the images of the call with the triangles in the
\* other order; the triangle over every sample at z = -0.5 in red and the one
\* at z = +0.5 in green, in either order and without culling, end with every
\* pixel red and every depth 0.25 wherever both cover every sample.
C21_DrawOrder ==
    (draw.pc = "done" /\ shadow.pc = "off") =>
      LET t1 == ScreenTri(draw, 1)
          t2 == ScreenTri(draw, 2)
          Both(p) == Covers(t1, p[1], p[2]) /\ Covers(t2, p[1], p[2])
      IN  /\ (\A p \in Samples(draw) :
                 Both(p) => DepthAt(t1, p[1], p[2]) # DepthAt(t2, p[1], p[2])) =>
                /\ draw.image_color = Reversed(draw).image_color
                /\ draw.image_depth = Reversed(draw).image_depth
          /\ ( /\ draw.cull_face = "None"
               /\ draw.buffer \in
                    { FullTri(Rat(-1, 2), Red) \o FullTri(Rat(1, 2), Green),
                      FullTri(Rat(1, 2), Green) \o FullTri(Rat(-1, 2), Red) }
               /\ \A p \in Samples(draw) : Both(p) ) =>
                \A p \in Samples(draw) :
                  /\ Image_pixel(draw.image_color, p[1], p[2]) = Ok(<<255, 0, 0, 255>>)
                  /\ Image_pixel(draw.image_depth, p[1], p[2]) = Ok(<<Rat(1, 4)>>)

\* The call that drew green at z = +0.5 first and red at z = -0.5 over it, on
\* images of 2 x 2, has returned after eight fragments.
C21_Witness ==
    /\ draw.pc = "done" /\ shadow.pc = "off" /\ draw.cull_face = "None"
    /\ draw.buffer = FullTri(Rat(1, 2), Green) \o FullTri(Rat(-1, 2), Red)
    /\ Image_dimensions(draw.image_color) = <<2, 2>>
    /\ draw.nfrag = 8
    /\ Reversed(draw).nfrag = 4

\* C28: the second of two calls with the same buffer on the same images
\* returns with the color image and the depth image the first call left, and
\* without an invocation of the fragment stage.
C28_Idempotent ==
    (draw.pc = "done" /\ shadow.pc = "done") =>
      /\ draw.image_color = shadow.image_color
      /\ draw.image_depth = shadow.image_depth
      /\ draw.nfrag = 0

\* The second call has returned; the first drew eight fragments of two
\* triangles and left images that are not the cleared ones.
C28_Witness ==
    /\ draw.pc = "done" /\ shadow.pc = "done"
    /\ shadow.nfrag = 8 /\ shadow.culled = <<FALSE, FALSE>>
    /\ shadow.image_color # shadow.color0
    /\ draw.color0 = shadow.image_color
    /\ draw.vlog = <<0, 1, 2, 3, 4, 5>>

\* C22: a call of one triangle that has a vertex with clip w <= 0, on images
\* of equal dimensions, does not panic and returns with the color image and
\* the depth image as they were given.
C22_SkipNonPositiveW ==
    ( /\ Len(draw.buffer) = 3
      /\ Image_dimensions(draw.color0) = Image_dimensions(draw.depth0)
      /\ \E k \in 1..3 : RLe(draw.buffer[k].pos.w, F(0)) ) =>
      /\ draw.pc # "panicked"
      /\ draw.pc = "done" =>
            /\ draw.image_color = draw.color0
            /\ draw.image_depth = draw.depth0

\* The screen position of the clip position pos on images of width x height,
\* with the exact halves width/2 and height/2.
Viewport(pos, width, height) ==
    Vec4(RMul(RAdd(RDiv(pos.x, pos.w), F(1)), Rat(width, 2)),
         RMul(RAdd(RDiv(pos.y, pos.w), F(1)), Rat(height, 2)),
         clamp(RDiv(pos.z, pos.w), F(-1), F(1)),
         RDiv(F(1), pos.w))

\* C23: the screen positions of the triangle being rasterized are
\* ((x/w + 1) * W/2, (y/w + 1) * H/2, clamp(z/w, -1, 1), 1/w) of the clip
\* positions of its vertices, for every image size W x H.
C23_Viewport ==
    draw.pc = "raster" =>
      LET V(k) == Viewport(draw.buffer[3 * draw.i + k].pos,
                           draw.image_color.width, draw.image_color.height)
      IN  draw.a = V(1) /\ draw.b = V(2) /\ draw.c = V(3)

\* C24: every component c of a color, NaN aside, is written as
\* floor(255 * min(1, max(0, c))): 0 for c <= 0, 255 for c >= 1; and every
\* component written, that of NaN too, is in 0..255.
C24_Quantization ==
    res.pc = "done" =>
      \A k \in 1..4 :
        LET c == <<res.color.x, res.color.y, res.color.z, res.color.w>>[k]
            o == res.out[k]
        IN  /\ o \in 0..255
            /\ c # NaN =>
                  /\ o = Floor(RMul(F(255), Unit(c)))
                  /\ RLe(c, F(0)) => o = 0
                  /\ RLe(F(1), c) => o = 255

\* The color (2, -1, 1/2, 254/255) has been written as (255, 0, 127, 254).
C24_Witness ==
    /\ res.pc = "done"
    /\ res.color = Vec4(F(2), F(-1), Rat(1, 2), Rat(254, 255))
    /\ res.out = <<255, 0, 127, 254>>

\* The largest integer not above v, or 0 when that is negative, in a u32.
Floor0(v) == IF v[1] <= 0 THEN 0 ELSE IMin(Floor(v), U32Max)

\* The least and the largest x and y of the screen-space triangle t.
Extent(t) ==
    [xmin |-> RMin(RMin(t.a.x, t.b.x), t.c.x), xmax |-> RMax(RMax(t.a.x, t.b.x), t.c.x),
     ymin |-> RMin(RMin(t.a.y, t.b.y), t.c.y), ymax |-> RMax(RMax(t.a.y, t.b.y), t.c.y)]

C26_Barycentric ==
    [][ draw.pc = "raster" =>
          LET t == NowTri(draw)
              bc == Bary(t, draw.x, draw.y).bc
          IN  IF RLt(RAbs(ScreenCrossZ(t)), F(1))
              THEN draw'.last = "degenerate"
              ELSE /\ Bary(t, draw.x, draw.y).some
                   /\ RAdd(RAdd(bc.x, bc.y), bc.z) = F(1)
                   /\ interpolate(t.a.x, t.b.x, t.c.x, bc) = F(draw.x)
                   /\ interpolate(t.a.y, t.b.y, t.c.y, bc) = F(draw.y)
                   /\ (draw'.last = "outside") <=>
                        ~(RLe(F(0), bc.x) /\ RLe(F(0), bc.y) /\ RLe(F(0), bc.z)) ]_vars

\* A sample on an edge of a triangle of negative winding, inside it, under
\* test after another sample of the same triangle was written.
C26_Witness ==
    /\ draw.pc = "raster" /\ draw.last = "written"
    /\ RLe(ScreenCrossZ(NowTri(draw)), F(-1))
    /\ inside(Bary(NowTri(draw), draw.x, draw.y).bc)
    /\ Bary(NowTri(draw), draw.x, draw.y).bc.y = F(0)
    /\ draw.x > 0

\* C27: a step at a sample invokes the fragment stage at most once, and it
\* does so exactly when the sample is covered and its fragment depth is below
\* the depth stored at its pixel; the step then leaves the fragment's depth
\* and color at that pixel before the next sample is examined, and any other
\* step leaves the images and the count of invocations as they are.
C27_EarlyDepthTest ==
    [][ IF /\ draw.pc = "raster"
           /\ Covers(NowTri(draw), draw.x, draw.y)
           /\ RLt(DepthAt(NowTri(draw), draw.x, draw.y),
                  Image_pixel(draw.image_depth, draw.x, FlipY(draw, draw.y)).val[1])
        THEN /\ draw'.nfrag = draw.nfrag + 1
             /\ draw'.last = "written"
             /\ Image_pixel(draw'.image_depth, draw.x, FlipY(draw, draw.y)) =
                  Ok(<<DepthAt(NowTri(draw), draw.x, draw.y)>>)
             /\ Image_pixel(draw'.image_color, draw.x, FlipY(draw, draw.y)) =
                  Ok(ColorAt(draw, draw.i + 1, draw.x, draw.y))
             /\ <<draw'.x, draw'.y, draw'.i>> # <<draw.x, draw.y, draw.i>>
        ELSE /\ draw'.nfrag = draw.nfrag
             /\ draw'.image_color = draw.image_color
             /\ draw'.image_depth = draw.image_depth
             /\ draw.pc = "raster" => draw'.last # "written" ]_vars

\* A covered sample of the second triangle under test whose fragment is not
\* nearer than the one the first triangle left at its pixel.
C27_Witness ==
    /\ draw.pc = "raster" /\ draw.i = 1 /\ draw.nfrag > 0
    /\ Covers(NowTri(draw), draw.x, draw.y)
    /\ RLt(Image_pixel(draw.image_depth, draw.x, FlipY(draw, draw.y)).val[1],
           DepthAt(NowTri(draw), draw.x, draw.y))
    /\ RLt(DepthAt(NowTri(draw), draw.x, draw.y), F(1))

\* C29: a call on images of equal dimensions, those with a width or height of
\* 0 or 1 among them, never panics, whatever the finite clip positions with
\* w # 0 of its triangles and however far from [-1, 1] they lie,
\* and every sample whose pixel it reads or writes has x < W and y <= H - 1,
\* so that H - 1 - y is a row of the images and the pixel is in the buffers.
C29_MemorySafety ==
    /\ draw.pc # "panicked"
    /\ (draw.pc = "raster" /\ Covers(NowTri(draw), draw.x, draw.y)) =>
         /\ draw.x < draw.image_color.width
         /\ draw.image_color.height - 1 - draw.y \in 0..(draw.image_color.height - 1)
         /\ SliceInRange(draw.image_color,
                         PixelIndex(draw.image_color, draw.x, FlipY(draw, draw.y)))
         /\ SliceInRange(draw.image_depth,
                         PixelIndex(draw.image_depth, draw.x, FlipY(draw, draw.y)))

\* C30: in every step of a call each pixel whose depth changes receives a
\* strictly smaller depth and, in the same step, the color of the fragment
\* drawn at the sample under test; each pixel whose depth does not change
\* keeps its color; and at every point of the call no pixel is farther than
\* the call found it, and a pixel whose depth the call has not lowered holds
\* the color and the depth the call found.
C30_Lockstep ==
    [][ \A p \in InBounds(draw.image_color) :
          LET d0 == Image_pixel(draw.image_depth, p[1], p[2]).val
              d1 == Image_pixel(draw'.image_depth, p[1], p[2]).val
              c0 == Image_pixel(draw.image_color, p[1], p[2]).val
              c1 == Image_pixel(draw'.image_color, p[1], p[2]).val
          IN  /\ IF d1 # d0
                 THEN /\ RLt(d1[1], d0[1])
                      /\ draw.pc = "raster"
                      /\ p = <<draw.x, FlipY(draw, draw.y)>>
                      /\ draw'.last = "written"
                      /\ c1 = ColorAt(draw, draw.i + 1, draw.x, draw.y)
                 ELSE c1 = c0
              /\ RLe(d1[1], Image_pixel(draw.depth0, p[1], p[2]).val[1])
              /\ d1 = Image_pixel(draw.depth0, p[1], p[2]).val =>
                    c1 = Image_pixel(draw.color0, p[1], p[2]).val ]_vars

\* A returned call of the triangle right of the middle of images of 2 x 2:
\* the pixels of column 1 hold its depth and its color, those of column 0,
\* outside its bounding box, what the call found.
C30_Witness ==
    /\ draw.pc = "done" /\ draw.nfrag = 2
    /\ draw.buffer = RightTri(Rat(-3, 4), Red)
    /\ Image_dimensions(draw.image_color) = <<2, 2>>
    /\ draw.box.topleft.x = 1
    /\ \A y \in 0..1 :
         /\ Image_pixel(draw.image_depth, 1, y) = Ok(<<Rat(1, 8)>>)
         /\ Image_pixel(draw.image_color, 1, y) = Ok(<<255, 0, 0, 255>>)
         /\ Image_pixel(draw.image_depth, 0, y) = Image_pixel(draw.depth0, 0, y)
         /\ Image_pixel(draw.image_color, 0, y) = Image_pixel(draw.color0, 0, y)

====
